---- MODULE Spec2Model ----
(***************************************************************************)
(* A model of list.h, the intrusive singly-linked list of lovasko/slist.   *)
(*                                                                         *)
(* The heap is a set of element records 1..NumElems; nxt[e] is the         *)
(* _list_nxt field of record e and fst[l] the _list_fst field of list l.   *)
(* NULL is 0.  Every macro of list.h is an operator LIST_X that takes the  *)
(* heap and the macro's arguments and returns the heap after the macro     *)
(* together with the value stored through `out`, the sequence of elements  *)
(* handed to the `clean` callback, the calls made to the `func` callback   *)
(* and a flag telling whether the macro read the link of NULL.  Loops are  *)
(* RECURSIVE operators that carry the loop's local variables.              *)
(*                                                                         *)
(* A comparator is given by a key per element: func(a, b) returns          *)
(* key[a] - key[b], so every total preorder on the elements is some key    *)
(* assignment.  A predicate is a set of elements or a set of indices.      *)
(* The `clean` argument is TRUE for a callback and FALSE for NULL.         *)
(***************************************************************************)
EXTENDS Integers, Sequences, FiniteSets

\* Number of element records the caller owns.
NumElems == 6
\* Number of distinct values a comparator key can take.
NumKeys == 3
NULL == 0
Elem == 1..NumElems
Ptr == Elem \cup {NULL}
\* The caller owns two lists (LIST_APPEND and LIST_ZIP take two).
Lists == {1, 2}
Keys == 0..(NumKeys - 1)

VARIABLES
  fst,      \* fst[l]: the _list_fst field of list l
  nxt,      \* nxt[e]: the _list_nxt field of element e
  op,       \* the last macro invoked and its arguments
  pre,      \* the heap right before the last macro was invoked
  out,      \* the value the last macro stored through `out` (booleans as 0/1)
  cleaned,  \* the `clean` calls of the last macro, in order
  visited,  \* the `func` calls of LIST_MAP / LIST_ZIP of the last macro, in order
  passes,   \* the passes of the last LIST_SORT: run length and number of merges
  fault     \* "none", or what a read of NULL's link in the last macro led to

vars == <<fst, nxt, op, pre, out, cleaned, visited, passes, fault>>

----------------------------------------------------------------------------
\* Helpers to read a heap.

Heap(f, nx) == [fst |-> f, nxt |-> nx]

\* The elements met by following links from e, as a sequence (needs acyclicity).
RECURSIVE ChainFrom(_, _)
ChainFrom(nx, e) == IF e = NULL THEN <<>> ELSE <<e>> \o ChainFrom(nx, nx[e])

Chain(h, l) == ChainFrom(h.nxt, h.fst[l])

Range(s) == {s[i] : i \in 1..Len(s)}

\* Following links from e reaches NULL within NumElems hops.
RECURSIVE EndsWithin(_, _, _)
EndsWithin(nx, e, k) ==
  IF e = NULL THEN TRUE
  ELSE IF k = 0 THEN FALSE
  ELSE EndsWithin(nx, nx[e], k - 1)

\* The elements reachable from some list head.
Linked(h) == UNION {Range(Chain(h, l)) : l \in Lists}

\* The result of a macro.
Res(f, nx, o, cl, vs, flt) ==
  [fst |-> f, nxt |-> nx, out |-> o, cleaned |-> cl, visited |-> vs, fault |-> flt]

\* func(a, b, ...) of a comparator.
Compare(key, a, b) == key[a] - key[b]

\* func(e, i, ...) of LIST_FILTER's predicate: decided by the element or by the index.
Holds(pred, e, i) == IF pred.by = "elem" THEN e \in pred.set ELSE i \in pred.set

\* func(e, ...) of the predicate of LIST_FIND, LIST_ALL and LIST_ANY.
Matches(pred, e) == e \in pred

Bool(b) == IF b THEN 1 ELSE 0

----------------------------------------------------------------------------
\* Navigation.

LIST_FIRST(h, l) == Res(h.fst, h.nxt, h.fst[l], <<>>, <<>>, "none")

RECURSIVE LastLoop(_, _)
LastLoop(nx, e) == IF nx[e] # NULL THEN LastLoop(nx, nx[e]) ELSE e

LIST_LAST(h, l) ==
  IF h.fst[l] = NULL
  THEN Res(h.fst, h.nxt, NULL, <<>>, <<>>, "none")
  ELSE Res(h.fst, h.nxt, LastLoop(h.nxt, h.fst[l]), <<>>, <<>>, "none")

RECURSIVE NthLoop(_, _, _, _)
NthLoop(nx, e, i, n) ==
  IF i < n /\ e # NULL THEN NthLoop(nx, nx[e], i + 1, n) ELSE e

LIST_NTH(h, l, n) ==
  IF h.fst[l] = NULL
  THEN Res(h.fst, h.nxt, NULL, <<>>, <<>>, "none")
  ELSE Res(h.fst, h.nxt, NthLoop(h.nxt, h.fst[l], 0, n), <<>>, <<>>, "none")

LIST_NEXT(h, e) == Res(h.fst, h.nxt, h.nxt[e], <<>>, <<>>, "none")

LIST_NEW(h, l) == Res([h.fst EXCEPT ![l] = NULL], h.nxt, NULL, <<>>, <<>>, "none")

LIST_EMPTY(h, l) == Res(h.fst, h.nxt, Bool(h.fst[l] = NULL), <<>>, <<>>, "none")

RECURSIVE LengthLoop(_, _, _)
LengthLoop(nx, e, n) == IF e # NULL THEN LengthLoop(nx, nx[e], n + 1) ELSE n

LIST_LENGTH(h, l) ==
  Res(h.fst, h.nxt, LengthLoop(h.nxt, h.fst[l], 0), <<>>, <<>>, "none")

RECURSIVE MemberLoop(_, _, _)
MemberLoop(nx, e, elem) ==
  IF e # NULL
  THEN IF e = elem THEN TRUE ELSE MemberLoop(nx, nx[e], elem)
  ELSE FALSE

LIST_MEMBER(h, l, elem) ==
  Res(h.fst, h.nxt, Bool(MemberLoop(h.nxt, h.fst[l], elem)), <<>>, <<>>, "none")

RECURSIVE FindLoop(_, _, _)
FindLoop(nx, e, pred) ==
  IF e # NULL
  THEN IF Matches(pred, e) THEN e ELSE FindLoop(nx, nx[e], pred)
  ELSE NULL

LIST_FIND(h, l, pred) ==
  Res(h.fst, h.nxt, FindLoop(h.nxt, h.fst[l], pred), <<>>, <<>>, "none")

RECURSIVE AllLoop(_, _, _)
AllLoop(nx, e, pred) ==
  IF e # NULL
  THEN IF ~Matches(pred, e) THEN FALSE ELSE AllLoop(nx, nx[e], pred)
  ELSE TRUE

LIST_ALL(h, l, pred) ==
  Res(h.fst, h.nxt, Bool(AllLoop(h.nxt, h.fst[l], pred)), <<>>, <<>>, "none")

RECURSIVE AnyLoop(_, _, _)
AnyLoop(nx, e, pred) ==
  IF e # NULL
  THEN IF Matches(pred, e) THEN TRUE ELSE AnyLoop(nx, nx[e], pred)
  ELSE FALSE

LIST_ANY(h, l, pred) ==
  Res(h.fst, h.nxt, Bool(AnyLoop(h.nxt, h.fst[l], pred)), <<>>, <<>>, "none")

----------------------------------------------------------------------------
\* Mutation.

\* One call clean(e), made on heap h: the element and whether a list still
\* reaches it at that moment.
CleanCall(h, e) == [elem |-> e, linked |-> e \in Linked(h)]

LIST_PUSH(h, l, elem) ==
  Res([h.fst EXCEPT ![l] = elem], [h.nxt EXCEPT ![elem] = h.fst[l]],
      NULL, <<>>, <<>>, "none")

\* An insert with its two assignments in the opposite order.
LIST_INSERT_Swapped(h, elem, toadd) ==
  LET nx1 == [h.nxt EXCEPT ![elem] = toadd]
  IN  Res(h.fst, [nx1 EXCEPT ![toadd] = nx1[elem]], NULL, <<>>, <<>>, "none")

LIST_INSERT(h, elem, toadd) ==
  LET nx1 == [h.nxt EXCEPT ![toadd] = h.nxt[elem]]
  IN  Res(h.fst, [nx1 EXCEPT ![elem] = toadd], NULL, <<>>, <<>>, "none")

\* A pop that hands the element to clean while the head still holds it.
LIST_POP_CleansFirst(h, l, clean) ==
  LET e == h.fst[l] IN
  IF e # NULL
  THEN Res([h.fst EXCEPT ![l] = h.nxt[e]], h.nxt, NULL,
           IF clean THEN <<CleanCall(h, e)>> ELSE <<>>, <<>>, "none")
  ELSE Res(h.fst, h.nxt, NULL, <<>>, <<>>, "none")

LIST_POP(h, l, clean) ==
  LET e == h.fst[l] IN
  IF e # NULL
  THEN LET f2 == [h.fst EXCEPT ![l] = h.nxt[e]]
       IN  Res(f2, h.nxt, NULL,
               IF clean THEN <<CleanCall(Heap(f2, h.nxt), e)>> ELSE <<>>,
               <<>>, "none")
  ELSE Res(h.fst, h.nxt, NULL, <<>>, <<>>, "none")

LIST_REMOVE(h, elem, clean) ==
  LET e == h.nxt[elem] IN
  IF e = NULL
  THEN Res(h.fst, h.nxt, NULL, <<>>, <<>>, "none")
  ELSE LET nx2 == [h.nxt EXCEPT ![elem] = h.nxt[e]]
       IN  Res(h.fst, nx2, NULL,
               IF clean THEN <<CleanCall(Heap(h.fst, nx2), e)>> ELSE <<>>,
               <<>>, "none")

RECURSIVE FreeLoop(_, _, _, _)
FreeLoop(h, l, clean, cl) ==
  IF h.fst[l] # NULL
  THEN LET r == LIST_POP(h, l, clean)
       IN  FreeLoop(Heap(r.fst, r.nxt), l, clean, cl \o r.cleaned)
  ELSE Res(h.fst, h.nxt, NULL, cl, <<>>, "none")

LIST_FREE(h, l, clean) == FreeLoop(h, l, clean, <<>>)

LIST_ATTACH(h, l, elem) ==
  Res([h.fst EXCEPT ![l] = elem], h.nxt, NULL, <<>>, <<>>, "none")

LIST_DETACH(h, l) ==
  Res([h.fst EXCEPT ![l] = NULL], h.nxt, NULL, <<>>, <<>>, "none")

RECURSIVE DropLoop(_, _, _, _, _, _)
DropLoop(h, l, i, n, clean, cl) ==
  IF i < n
  THEN LET r == LIST_POP(h, l, clean)
           cl2 == cl \o r.cleaned
       IN  IF r.fst[l] = NULL
           THEN Res(r.fst, r.nxt, NULL, cl2, <<>>, "none")
           ELSE DropLoop(Heap(r.fst, r.nxt), l, i + 1, n, clean, cl2)
  ELSE Res(h.fst, h.nxt, NULL, cl, <<>>, "none")

LIST_DROP(h, l, n, clean) == DropLoop(h, l, 0, n, clean, <<>>)

\* The first loop of LIST_TAKE: the element the removals start after.
TakeStart == 1

RECURSIVE TakeSkip(_, _, _, _)
TakeSkip(nx, f, i, n) ==
  IF f # NULL /\ i < n THEN TakeSkip(nx, nx[f], i + 1, n) ELSE f

RECURSIVE TakeLoop(_, _, _, _)
TakeLoop(h, f, clean, cl) ==
  IF h.nxt[f] # NULL
  THEN LET r == LIST_REMOVE(h, f, clean)
       IN  TakeLoop(Heap(r.fst, r.nxt), f, clean, cl \o r.cleaned)
  ELSE Res(h.fst, h.nxt, NULL, cl, <<>>, "none")

\* When the first loop leaves _list_f NULL, the second loop's test reads the
\* link of NULL, which is undefined: ub is what the build makes of it, "trap"
\* (the program stops there) or "zero" (the read yields NULL and the loop is
\* skipped).  Nothing was removed yet in either case.
LIST_TAKE(h, l, n, clean, ub) ==
  LET f == TakeSkip(h.nxt, h.fst[l], TakeStart, n) IN
  IF f = NULL
  THEN Res(h.fst, h.nxt, NULL, <<>>, <<>>, ub)
  ELSE TakeLoop(h, f, clean, <<>>)

\* An append that leaves the head of the second list in place.
LIST_APPEND_KeepsSecond(h, l1, l2) ==
  LET g == h.fst[l2]
      f == LIST_LAST(h, l1).out
  IN  IF f = NULL
      THEN Res([h.fst EXCEPT ![l1] = g], h.nxt, NULL, <<>>, <<>>, "none")
      ELSE Res(h.fst, [h.nxt EXCEPT ![f] = g], NULL, <<>>, <<>>, "none")

LIST_APPEND(h, l1, l2) ==
  LET g  == h.fst[l2]
      f2 == [h.fst EXCEPT ![l2] = NULL]
      f  == LIST_LAST(Heap(f2, h.nxt), l1).out
  IN  IF f = NULL
      THEN Res([f2 EXCEPT ![l1] = g], h.nxt, NULL, <<>>, <<>>, "none")
      ELSE Res(f2, [h.nxt EXCEPT ![f] = g], NULL, <<>>, <<>>, "none")

----------------------------------------------------------------------------
\* Algorithms.

RECURSIVE MapLoop(_, _, _, _)
MapLoop(nx, e, i, vs) ==
  IF e # NULL THEN MapLoop(nx, nx[e], i + 1, Append(vs, <<e, i>>)) ELSE vs

LIST_MAP(h, l) ==
  Res(h.fst, h.nxt, NULL, <<>>, MapLoop(h.nxt, h.fst[l], 0, <<>>), "none")

RECURSIVE ZipLoop(_, _, _, _, _)
ZipLoop(nx, a, b, i, vs) ==
  IF a # NULL /\ b # NULL
  THEN ZipLoop(nx, nx[a], nx[b], i + 1, Append(vs, <<a, b, i>>))
  ELSE vs

LIST_ZIP(h, l1, l2) ==
  Res(h.fst, h.nxt, NULL, <<>>,
      ZipLoop(h.nxt, h.fst[l1], h.fst[l2], 0, <<>>), "none")

\* _list_c of LIST_FILTER points at a list's head field, <<"fst", l>>, or at
\* an element's link field, <<"nxt", e>>.
Load(h, c) == IF c[1] = "fst" THEN h.fst[c[2]] ELSE h.nxt[c[2]]

Store(h, c, v) ==
  IF c[1] = "fst"
  THEN Heap([h.fst EXCEPT ![c[2]] = v], h.nxt)
  ELSE Heap(h.fst, [h.nxt EXCEPT ![c[2]] = v])

\* An index that is never incremented.
FilterNextIndexStuck(i) == i

\* The index LIST_FILTER hands to the predicate for the element after the
\* one at index i.
FilterNextIndex(i) == i + 1

RECURSIVE FilterLoop(_, _, _, _, _, _)
FilterLoop(h, c, i, clean, pred, cl) ==
  IF Load(h, c) # NULL
  THEN LET e == Load(h, c) IN
       IF Holds(pred, e, i)
       THEN LET h2 == Store(h, c, h.nxt[e])
            IN  FilterLoop(h2, c, FilterNextIndex(i), clean, pred,
                           IF clean THEN Append(cl, CleanCall(h2, e)) ELSE cl)
       ELSE FilterLoop(h, <<"nxt", e>>, FilterNextIndex(i), clean, pred, cl)
  ELSE Res(h.fst, h.nxt, NULL, cl, <<>>, "none")

LIST_FILTER(h, l, clean, pred) == FilterLoop(h, <<"fst", l>>, 0, clean, pred, <<>>)

RECURSIVE ReverseLoop(_, _, _)
ReverseLoop(nx, p, c) ==
  IF c # NULL
  THEN ReverseLoop([nx EXCEPT ![c] = p], c, nx[c])
  ELSE [nxt |-> nx, p |-> p]

\* A reverse that relinks the elements but leaves the head in place.
LIST_REVERSE_KeepsHead(h, l) ==
  LET r == ReverseLoop(h.nxt, NULL, h.fst[l])
  IN  Res(h.fst, r.nxt, NULL, <<>>, <<>>, "none")

LIST_REVERSE(h, l) ==
  LET r == ReverseLoop(h.nxt, NULL, h.fst[l])
  IN  Res([h.fst EXCEPT ![l] = r.p], r.nxt, NULL, <<>>, <<>>, "none")

\* An overwrite of the running best only by a strictly greater element.
MaxReplacesStrictly(c) == c < 0

\* LIST_MAX overwrites the running best when func(best, e) < 1.
MaxReplaces(c) == c < 1

RECURSIVE MaxLoop(_, _, _, _)
MaxLoop(nx, key, o, e) ==
  LET o2 == IF MaxReplaces(Compare(key, o, e)) THEN e ELSE o
      e2 == nx[e]
  IN  IF e2 = NULL THEN o2 ELSE MaxLoop(nx, key, o2, e2)

LIST_MAX(h, l, key) ==
  IF h.fst[l] = NULL
  THEN Res(h.fst, h.nxt, NULL, <<>>, <<>>, "none")
  ELSE Res(h.fst, h.nxt, MaxLoop(h.nxt, key, h.fst[l], h.fst[l]), <<>>, <<>>, "none")

\* LIST_MIN overwrites the running best when func(best, e) > -1.
MinReplaces(c) == c > -1

RECURSIVE MinLoop(_, _, _, _)
MinLoop(nx, key, o, e) ==
  LET o2 == IF MinReplaces(Compare(key, o, e)) THEN e ELSE o
      e2 == nx[e]
  IN  IF e2 = NULL THEN o2 ELSE MinLoop(nx, key, o2, e2)

LIST_MIN(h, l, key) ==
  IF h.fst[l] = NULL
  THEN Res(h.fst, h.nxt, NULL, <<>>, <<>>, "none")
  ELSE Res(h.fst, h.nxt, MinLoop(h.nxt, key, h.fst[l], h.fst[l]), <<>>, <<>>, "none")

\* The comparison of the merge step with its sense inverted.
TakesLeftInverted(c) == c > 0

\* The merge step of LIST_SORT emits the left element when func(l, r) < 0.
TakesLeft(c) == c < 0

\* Lines 341-344: skip up to gl elements to find the start of the right run.
RECURSIVE SortSkip(_, _, _, _)
SortSkip(nx, r, ls, gl) ==
  IF r # NULL /\ ls < gl
  THEN SortSkip(nx, nx[r], ls + 1, gl)
  ELSE [r |-> r, ls |-> ls]

\* Lines 345-365: merge the run of ls elements at l with the run of up to rs
\* elements at r, linking each emitted element after the tail t.
RECURSIVE SortMerge(_, _, _, _, _, _, _, _)
SortMerge(nx, key, l, r, ls, rs, t, x) ==
  IF ls > 0 \/ (rs > 0 /\ r # NULL)
  THEN LET left == /\ ls # 0
                   /\ \/ rs = 0
                      \/ r = NULL
                      \/ TakesLeft(Compare(key, l, r))
           n   == IF left THEN l ELSE r
           nx2 == IF t # NULL THEN [nx EXCEPT ![t] = n] ELSE nx
           x2  == IF t # NULL THEN x ELSE n
       IN  IF n = NULL
           THEN [nxt |-> nx, r |-> r, t |-> t, x |-> x, fault |-> "trap"]
           ELSE IF left
                THEN SortMerge(nx2, key, nx[l], r, ls - 1, rs, n, x2)
                ELSE SortMerge(nx2, key, l, nx[r], ls, rs - 1, n, x2)
  ELSE [nxt |-> nx, r |-> r, t |-> t, x |-> x, fault |-> "none"]

\* Lines 336-367: one pass, merging adjacent pairs of runs of length gl.
RECURSIVE SortPass(_, _, _, _, _, _, _)
SortPass(nx, key, gl, l, t, x, nm) ==
  IF l # NULL
  THEN LET s == SortSkip(nx, l, 0, gl)
           m == SortMerge(nx, key, l, s.r, s.ls, gl, t, x)
       IN  IF m.fault # "none"
           THEN [nxt |-> m.nxt, t |-> m.t, x |-> m.x, nm |-> nm + 1, fault |-> m.fault]
           ELSE SortPass(m.nxt, key, gl, m.r, m.t, m.x, nm + 1)
  ELSE [nxt |-> nx, t |-> t, x |-> x, nm |-> nm, fault |-> "none"]

\* A loop that goes on only after a pass of more than two merges.
SortContinuesLate(nm) == nm > 2

\* Line 370: another pass follows a pass that made more than one merge.
SortContinues(nm) == nm > 1

\* Lines 331-370: passes with doubling run length until a pass makes one merge.
RECURSIVE SortPasses(_, _, _, _, _)
SortPasses(nx, key, x, gl, ps) ==
  LET p   == SortPass(nx, key, gl, x, NULL, NULL, 0)
      ps2 == Append(ps, [gl |-> gl, nm |-> p.nm])
  IN  IF p.fault # "none" \/ p.t = NULL
      THEN [nxt |-> p.nxt, x |-> p.x, passes |-> ps2, fault |-> "trap"]
      ELSE LET nx2 == [p.nxt EXCEPT ![p.t] = NULL]
           IN  IF SortContinues(p.nm)
               THEN SortPasses(nx2, key, p.x, gl * 2, ps2)
               ELSE [nxt |-> nx2, x |-> p.x, passes |-> ps2, fault |-> "none"]

\* The result carries the passes made: the run length and the number of
\* merges of each.
LIST_SORT(h, l, key) ==
  LET x == h.fst[l] IN
  IF x = NULL \/ h.nxt[x] = NULL
  THEN [fst |-> h.fst, nxt |-> h.nxt, out |-> NULL, cleaned |-> <<>>,
        visited |-> <<>>, fault |-> "none", passes |-> <<>>]
  ELSE LET s == SortPasses(h.nxt, key, x, 1, <<>>)
       IN  [fst |-> IF s.fault = "none" THEN [h.fst EXCEPT ![l] = s.x] ELSE h.fst,
            nxt |-> s.nxt, out |-> NULL, cleaned |-> <<>>,
            visited |-> <<>>, fault |-> s.fault, passes |-> s.passes]

\* Lines 388-392: the inner loop of LIST_UNIQUE, comparing f with the element
\* after g.  When g is NULL the loop's test reads the link of NULL: the build
\* either stops there ("trap") or reads NULL and leaves the loop ("zero").
RECURSIVE UniqueInner(_, _, _, _, _, _, _)
UniqueInner(h, f, g, clean, key, ub, cl) ==
  IF g = NULL
  THEN [fst |-> h.fst, nxt |-> h.nxt, cleaned |-> cl, fault |-> ub]
  ELSE IF h.nxt[g] # NULL
  THEN LET r == IF Compare(key, f, h.nxt[g]) = 0
                THEN LIST_REMOVE(h, g, clean)
                ELSE Res(h.fst, h.nxt, NULL, <<>>, <<>>, "none")
       IN  UniqueInner(Heap(r.fst, r.nxt), f, r.nxt[g], clean, key, ub,
                       cl \o r.cleaned)
  ELSE [fst |-> h.fst, nxt |-> h.nxt, cleaned |-> cl, fault |-> "none"]

\* Lines 386-394: the outer loop of LIST_UNIQUE.
RECURSIVE UniqueOuter(_, _, _, _, _, _, _)
UniqueOuter(h, f, clean, key, ub, cl, flt) ==
  IF f # NULL
  THEN LET r == UniqueInner(h, f, f, clean, key, ub, cl)
       IN  IF r.fault = "trap"
           THEN Res(r.fst, r.nxt, NULL, r.cleaned, <<>>, "trap")
           ELSE UniqueOuter(Heap(r.fst, r.nxt), r.nxt[f], clean, key, ub,
                            r.cleaned, IF r.fault = "zero" THEN "zero" ELSE flt)
  ELSE Res(h.fst, h.nxt, NULL, cl, <<>>, flt)

LIST_UNIQUE(h, l, clean, key, ub) ==
  UniqueOuter(h, h.fst[l], clean, key, ub, <<>>, "none")

----------------------------------------------------------------------------
\* The caller: two well-formed lists over distinct elements, then one macro.

H == Heap(fst, nxt)

NoOp ==
  [name |-> "init", list |-> 0, list2 |-> 0, n |-> 0, elem |-> NULL,
   toadd |-> NULL, clean |-> FALSE, key |-> <<>>, pred |-> [by |-> "elem", set |-> {}],
   match |-> {}]

\* The first list holds elements 1..n in this order, the second one the next
\* m elements; the remaining elements are linked nowhere.
Init ==
  \E n \in 0..NumElems : \E m \in 0..(NumElems - n) :
    /\ fst = [l \in Lists |-> IF l = 1 THEN (IF n > 0 THEN 1 ELSE NULL)
                                        ELSE (IF m > 0 THEN n + 1 ELSE NULL)]
    /\ nxt = [e \in Elem |-> IF e = n \/ e >= n + m THEN NULL ELSE e + 1]
    /\ op = NoOp
    /\ pre = Heap(fst, nxt)
    /\ out = NULL
    /\ cleaned = <<>>
    /\ visited = <<>>
    /\ passes = <<>>
    /\ fault = "none"

\* No macro was invoked yet.
Ready == op.name = "init"

Commit(o, r) ==
  /\ op' = o
  /\ pre' = H
  /\ fst' = r.fst
  /\ nxt' = r.nxt
  /\ out' = r.out
  /\ cleaned' = r.cleaned
  /\ visited' = r.visited
  /\ passes' = IF "passes" \in DOMAIN r THEN r.passes ELSE <<>>
  /\ fault' = r.fault

Members(l) == Range(Chain(H, l))
Unlinked == Elem \ Linked(H)

\* The comparators that tell the elements of S apart.
KeysOn(S) == {[e \in Elem |-> IF e \in S THEN k[e] ELSE 0] : k \in [S -> Keys]}

\* The values of an `n` argument.
Counts == 0..(NumElems + 1)

\* What the build makes of a read of NULL's link.
Undefined == {"trap", "zero"}

First(l) ==
  /\ Ready
  /\ Commit([NoOp EXCEPT !.name = "first", !.list = l], LIST_FIRST(H, l))

Last(l) ==
  /\ Ready
  /\ Commit([NoOp EXCEPT !.name = "last", !.list = l], LIST_LAST(H, l))

Nth(l, n) ==
  /\ Ready
  /\ Commit([NoOp EXCEPT !.name = "nth", !.list = l, !.n = n], LIST_NTH(H, l, n))

NextOf(e) ==
  /\ Ready
  /\ Commit([NoOp EXCEPT !.name = "next", !.elem = e], LIST_NEXT(H, e))

New(l) ==
  /\ Ready
  /\ Commit([NoOp EXCEPT !.name = "new", !.list = l], LIST_NEW(H, l))

Empty(l) ==
  /\ Ready
  /\ Commit([NoOp EXCEPT !.name = "empty", !.list = l], LIST_EMPTY(H, l))

Length(l) ==
  /\ Ready
  /\ Commit([NoOp EXCEPT !.name = "length", !.list = l], LIST_LENGTH(H, l))

Member(l, e) ==
  /\ Ready
  /\ Commit([NoOp EXCEPT !.name = "member", !.list = l, !.elem = e],
            LIST_MEMBER(H, l, e))

Find(l) ==
  /\ Ready
  /\ \E match \in SUBSET Members(l) :
       Commit([NoOp EXCEPT !.name = "find", !.list = l, !.match = match],
              LIST_FIND(H, l, match))

All(l) ==
  /\ Ready
  /\ \E match \in SUBSET Members(l) :
       Commit([NoOp EXCEPT !.name = "all", !.list = l, !.match = match],
              LIST_ALL(H, l, match))

Any(l) ==
  /\ Ready
  /\ \E match \in SUBSET Members(l) :
       Commit([NoOp EXCEPT !.name = "any", !.list = l, !.match = match],
              LIST_ANY(H, l, match))

Max(l) ==
  /\ Ready
  /\ \E key \in KeysOn(Members(l)) :
       Commit([NoOp EXCEPT !.name = "max", !.list = l, !.key = key],
              LIST_MAX(H, l, key))

Min(l) ==
  /\ Ready
  /\ \E key \in KeysOn(Members(l)) :
       Commit([NoOp EXCEPT !.name = "min", !.list = l, !.key = key],
              LIST_MIN(H, l, key))

\* The caller pushes an element that is linked nowhere.
Push(l) ==
  /\ Ready
  /\ \E e \in Unlinked :
       Commit([NoOp EXCEPT !.name = "push", !.list = l, !.elem = e],
              LIST_PUSH(H, l, e))

\* The caller inserts an element that is linked nowhere after a member of l.
Insert(l) ==
  /\ Ready
  /\ \E e \in Members(l) : \E toadd \in Unlinked :
       Commit([NoOp EXCEPT !.name = "insert", !.list = l, !.elem = e,
                           !.toadd = toadd],
              LIST_INSERT(H, e, toadd))

Pop(l, clean) ==
  /\ Ready
  /\ Commit([NoOp EXCEPT !.name = "pop", !.list = l, !.clean = clean],
            LIST_POP(H, l, clean))

\* The caller removes the element after a member of l.
Remove(l, clean) ==
  /\ Ready
  /\ \E e \in Members(l) :
       Commit([NoOp EXCEPT !.name = "remove", !.list = l, !.elem = e,
                           !.clean = clean],
              LIST_REMOVE(H, e, clean))

Free(l, clean) ==
  /\ Ready
  /\ Commit([NoOp EXCEPT !.name = "free", !.list = l, !.clean = clean],
            LIST_FREE(H, l, clean))

\* The caller attaches an element that no list holds, or NULL.
Attach(l) ==
  /\ Ready
  /\ \E e \in Unlinked \cup {NULL} :
       Commit([NoOp EXCEPT !.name = "attach", !.list = l, !.elem = e],
              LIST_ATTACH(H, l, e))

Detach(l) ==
  /\ Ready
  /\ Commit([NoOp EXCEPT !.name = "detach", !.list = l], LIST_DETACH(H, l))

Drop(l, n, clean) ==
  /\ Ready
  /\ Commit([NoOp EXCEPT !.name = "drop", !.list = l, !.n = n, !.clean = clean],
            LIST_DROP(H, l, n, clean))

Take(l, n, clean, ub) ==
  /\ Ready
  /\ Commit([NoOp EXCEPT !.name = "take", !.list = l, !.n = n, !.clean = clean],
            LIST_TAKE(H, l, n, clean, ub))

\* The caller appends one of its lists to the other.
Append2(l1, l2) ==
  /\ Ready
  /\ l1 # l2
  /\ Commit([NoOp EXCEPT !.name = "append", !.list = l1, !.list2 = l2],
            LIST_APPEND(H, l1, l2))

Map(l) ==
  /\ Ready
  /\ Commit([NoOp EXCEPT !.name = "map", !.list = l], LIST_MAP(H, l))

Zip(l1, l2) ==
  /\ Ready
  /\ Commit([NoOp EXCEPT !.name = "zip", !.list = l1, !.list2 = l2],
            LIST_ZIP(H, l1, l2))

\* The predicates on the elements and on the indices of list l.
Predicates(l) ==
  {[by |-> "elem", set |-> S] : S \in SUBSET Members(l)}
    \cup {[by |-> "index", set |-> S] : S \in SUBSET (0..(Len(Chain(H, l)) - 1))}

Filter(l, clean) ==
  /\ Ready
  /\ \E pred \in Predicates(l) :
       Commit([NoOp EXCEPT !.name = "filter", !.list = l, !.clean = clean,
                           !.pred = pred],
              LIST_FILTER(H, l, clean, pred))

Reverse(l) ==
  /\ Ready
  /\ Commit([NoOp EXCEPT !.name = "reverse", !.list = l], LIST_REVERSE(H, l))

Sort(l) ==
  /\ Ready
  /\ \E key \in KeysOn(Members(l)) :
       Commit([NoOp EXCEPT !.name = "sort", !.list = l, !.key = key],
              LIST_SORT(H, l, key))

Unique(l, clean, ub) ==
  /\ Ready
  /\ \E key \in KeysOn(Members(l)) :
       Commit([NoOp EXCEPT !.name = "unique", !.list = l, !.clean = clean,
                           !.key = key],
              LIST_UNIQUE(H, l, clean, key, ub))

\* The caller invokes one macro on the lists it set up.
Next ==
  \/ \E l \in Lists : First(l)
  \/ \E l \in Lists : Last(l)
  \/ \E l \in Lists, n \in Counts : Nth(l, n)
  \/ \E e \in Elem : NextOf(e)
  \/ \E l \in Lists : New(l)
  \/ \E l \in Lists : Empty(l)
  \/ \E l \in Lists : Length(l)
  \/ \E l \in Lists, e \in Elem : Member(l, e)
  \/ \E l \in Lists : Find(l)
  \/ \E l \in Lists : All(l)
  \/ \E l \in Lists : Any(l)
  \/ \E l \in Lists : Max(l)
  \/ \E l \in Lists : Min(l)
  \/ \E l \in Lists : Push(l)
  \/ \E l \in Lists : Insert(l)
  \/ \E l \in Lists, clean \in BOOLEAN : Pop(l, clean)
  \/ \E l \in Lists, clean \in BOOLEAN : Remove(l, clean)
  \/ \E l \in Lists, clean \in BOOLEAN : Free(l, clean)
  \/ \E l \in Lists : Attach(l)
  \/ \E l \in Lists : Detach(l)
  \/ \E l \in Lists, n \in Counts, clean \in BOOLEAN : Drop(l, n, clean)
  \/ \E l \in Lists, n \in Counts, clean \in BOOLEAN, ub \in Undefined :
       Take(l, n, clean, ub)
  \/ \E l1 \in Lists, l2 \in Lists : Append2(l1, l2)
  \/ \E l \in Lists : Map(l)
  \/ \E l1 \in Lists, l2 \in Lists : Zip(l1, l2)
  \/ \E l \in Lists, clean \in BOOLEAN : Filter(l, clean)
  \/ \E l \in Lists : Reverse(l)
  \/ \E l \in Lists : Sort(l)
  \/ \E l \in Lists, clean \in BOOLEAN, ub \in Undefined : Unique(l, clean, ub)

Spec == Init /\ [][Next]_vars

----------------------------------------------------------------------------
\* The caller, over time: two empty lists, then any sequence of the macros
\* that write a head or a link, on a pool of PoolSize elements.  Only the
\* name of the last macro and the heap are recorded here; pre, out, cleaned,
\* visited and passes keep their initial values.

\* Number of element records the caller links and unlinks over time.
PoolSize == 3

Pool == 1..PoolSize

InitSeq ==
  /\ fst = [l \in Lists |-> NULL]
  /\ nxt = [e \in Elem |-> NULL]
  /\ op = NoOp
  /\ pre = Heap(fst, nxt)
  /\ out = NULL
  /\ cleaned = <<>>
  /\ visited = <<>>
  /\ passes = <<>>
  /\ fault = "none"

\* The program has not stopped on a read of NULL's link.
Running == fault # "trap"

Step(name, r) ==
  /\ op' = [NoOp EXCEPT !.name = name]
  /\ fst' = r.fst
  /\ nxt' = r.nxt
  /\ fault' = r.fault
  /\ UNCHANGED <<pre, out, cleaned, visited, passes>>

\* The elements of the pool that no list holds.
Spare == Pool \ Linked(H)

\* The heads of chains the caller may attach: chains of spare elements that
\* end.
SpareChains ==
  {e \in Spare : /\ EndsWithin(nxt, e, NumElems)
                 /\ Range(ChainFrom(nxt, e)) \subseteq Spare}

\* The values of an `n` argument.
SeqCounts == 0..(PoolSize + 1)

SeqNew(l) == Running /\ Step("new", LIST_NEW(H, l))

SeqPush(l) ==
  /\ Running
  /\ \E e \in Spare : Step("push", LIST_PUSH(H, l, e))

SeqInsert(l) ==
  /\ Running
  /\ \E e \in Members(l) : \E toadd \in Spare :
       Step("insert", LIST_INSERT(H, e, toadd))

SeqPop(l, clean) == Running /\ Step("pop", LIST_POP(H, l, clean))

SeqRemove(l, clean) ==
  /\ Running
  /\ \E e \in Members(l) : Step("remove", LIST_REMOVE(H, e, clean))

SeqFree(l, clean) == Running /\ Step("free", LIST_FREE(H, l, clean))

SeqAttach(l) ==
  /\ Running
  /\ \E e \in SpareChains \cup {NULL} : Step("attach", LIST_ATTACH(H, l, e))

SeqDetach(l) == Running /\ Step("detach", LIST_DETACH(H, l))

SeqDrop(l, n, clean) == Running /\ Step("drop", LIST_DROP(H, l, n, clean))

SeqTake(l, n, clean, ub) ==
  Running /\ Step("take", LIST_TAKE(H, l, n, clean, ub))

SeqAppend(l1, l2) ==
  /\ Running
  /\ l1 # l2
  /\ Step("append", LIST_APPEND(H, l1, l2))

SeqFilter(l, clean) ==
  /\ Running
  /\ \E pred \in Predicates(l) : Step("filter", LIST_FILTER(H, l, clean, pred))

SeqReverse(l) == Running /\ Step("reverse", LIST_REVERSE(H, l))

SeqSort(l) ==
  /\ Running
  /\ \E key \in KeysOn(Members(l)) : Step("sort", LIST_SORT(H, l, key))

SeqUnique(l, clean, ub) ==
  /\ Running
  /\ \E key \in KeysOn(Members(l)) :
       Step("unique", LIST_UNIQUE(H, l, clean, key, ub))

NextSeq ==
  \/ \E l \in Lists : SeqNew(l)
  \/ \E l \in Lists : SeqPush(l)
  \/ \E l \in Lists : SeqInsert(l)
  \/ \E l \in Lists, clean \in BOOLEAN : SeqPop(l, clean)
  \/ \E l \in Lists, clean \in BOOLEAN : SeqRemove(l, clean)
  \/ \E l \in Lists, clean \in BOOLEAN : SeqFree(l, clean)
  \/ \E l \in Lists : SeqAttach(l)
  \/ \E l \in Lists : SeqDetach(l)
  \/ \E l \in Lists, n \in SeqCounts, clean \in BOOLEAN : SeqDrop(l, n, clean)
  \/ \E l \in Lists, n \in SeqCounts, clean \in BOOLEAN, ub \in Undefined :
       SeqTake(l, n, clean, ub)
  \/ \E l1 \in Lists, l2 \in Lists : SeqAppend(l1, l2)
  \/ \E l \in Lists, clean \in BOOLEAN : SeqFilter(l, clean)
  \/ \E l \in Lists : SeqReverse(l)
  \/ \E l \in Lists : SeqSort(l)
  \/ \E l \in Lists, clean \in BOOLEAN, ub \in Undefined : SeqUnique(l, clean, ub)

SpecSeq == InitSeq /\ [][NextSeq]_vars

----------------------------------------------------------------------------
\* Vocabulary of the properties.

\* The chain of list l before and after the last macro.
Before(l) == Chain(pre, l)
After(l) == Chain(H, l)

\* The position of element e in the sequence s of distinct elements.
Pos(s, e) == CHOOSE i \in 1..Len(s) : s[i] = e

Min2(a, b) == IF a < b THEN a ELSE b

Reversed(s) == [i \in 1..Len(s) |-> s[Len(s) + 1 - i]]

Elems(cl) == [i \in 1..Len(cl) |-> cl[i].elem]

\* s is non-decreasing under the comparator.
NonDecreasing(s, key) ==
  \A i \in 1..(Len(s) - 1) : Compare(key, s[i], s[i + 1]) <= 0

\* t holds exactly the elements of s, each once.
Permutation(s, t) ==
  /\ Len(t) = Len(s)
  /\ Range(t) = Range(s)
  /\ Cardinality(Range(t)) = Len(t)

\* The elements of s that no earlier element of s compares equal to.
FirstOccurrences(s, key) ==
  LET IsFirst(e) == \A j \in 1..(Pos(s, e) - 1) : Compare(key, s[j], e) # 0
  IN  SelectSeq(s, IsFirst)

\* The elements of s that no other element of s exceeds (precedes).
Maximal(s, key) == {e \in Range(s) : \A d \in Range(s) : Compare(key, d, e) <= 0}
Minimal(s, key) == {e \in Range(s) : \A d \in Range(s) : Compare(key, d, e) >= 0}

\* The element of the non-empty set S that comes first (last) in s.
Earliest(s, S) == CHOOSE e \in S : \A d \in S : Pos(s, e) <= Pos(s, d)
Latest(s, S) == CHOOSE e \in S : \A d \in S : Pos(s, e) >= Pos(s, d)

----------------------------------------------------------------------------
\* Properties.

\* C1: after sort the chain from the head is non-decreasing under compare
\* and holds exactly the elements of the input, each exactly once.
SortSortsPermutation ==
  op.name = "sort" =>
    /\ fault = "none"
    /\ NonDecreasing(After(op.list), op.key)
    /\ Permutation(Before(op.list), After(op.list))

\* A sort of at least five elements that were out of order, in three passes
\* or more.
SortSortsPermutationWitness ==
  /\ op.name = "sort"
  /\ Len(Before(op.list)) >= 5
  /\ Len(passes) >= 3
  /\ ~NonDecreasing(Before(op.list), op.key)
  /\ \E a, b \in Range(Before(op.list)) : a # b /\ Compare(op.key, a, b) = 0

\* C2: sort is stable: two elements that compare equal keep their relative
\* order.
SortStable ==
  op.name = "sort" =>
    \A a, b \in Range(Before(op.list)) :
      (/\ Compare(op.key, a, b) = 0
       /\ Pos(Before(op.list), a) < Pos(Before(op.list), b))
        => Pos(After(op.list), a) < Pos(After(op.list), b)

\* C3: after unique the list holds exactly the first occurrence of each class
\* of compare-equal elements, in the original order.
UniqueKeepsFirstOccurrences ==
  (op.name = "unique" /\ fault = "none") =>
    After(op.list) = FirstOccurrences(Before(op.list), op.key)

\* C4, as claimed: max (min) returns the earliest of the maximal (minimal)
\* elements, and none on an empty list.
MaxMinEarliest ==
  /\ op.name = "max" =>
       out = IF Before(op.list) = <<>> THEN NULL
             ELSE Earliest(Before(op.list), Maximal(Before(op.list), op.key))
  /\ op.name = "min" =>
       out = IF Before(op.list) = <<>> THEN NULL
             ELSE Earliest(Before(op.list), Minimal(Before(op.list), op.key))

\* C4, amended: max (min) returns the latest element in list order among
\* the maximal (minimal) ones: a later equal element always replaces the
\* running best.  On an empty list both return none.
MaxMinLatest ==
  /\ op.name = "max" =>
       out = IF Before(op.list) = <<>> THEN NULL
             ELSE Latest(Before(op.list), Maximal(Before(op.list), op.key))
  /\ op.name = "min" =>
       out = IF Before(op.list) = <<>> THEN NULL
             ELSE Latest(Before(op.list), Minimal(Before(op.list), op.key))

\* A max over a list with several maximal elements and a smaller one.
MaxMinLatestWitness ==
  /\ op.name = "max"
  /\ Cardinality(Maximal(Before(op.list), op.key)) >= 2
  /\ Maximal(Before(op.list), op.key) # Range(Before(op.list))
  /\ out # Earliest(Before(op.list), Maximal(Before(op.list), op.key))

\* C5: after take(L, n, cleanup) the list is the first min(n, length(L))
\* elements of L, and cleanup was invoked once on each removed element in
\* list order.
TakeKeepsFirstN ==
  (op.name = "take" /\ fault = "none") =>
    LET s == Before(op.list)
        k == Min2(op.n, Len(s))
    IN  /\ After(op.list) = SubSeq(s, 1, k)
        /\ op.clean => Elems(cleaned) = SubSeq(s, k + 1, Len(s))

\* C6: no macro reads the link of NULL.
NoNullDereference == fault = "none"

AppendConcatenates ==
  op.name = "append" =>
    /\ fault = "none"
    /\ After(op.list) = Before(op.list) \o Before(op.list2)
    /\ LIST_LENGTH(H, op.list).out
         = LIST_LENGTH(pre, op.list).out + LIST_LENGTH(pre, op.list2).out
    /\ fst[op.list2] = NULL
    /\ (pre.fst[op.list] = NULL => fst[op.list] = pre.fst[op.list2])

\* An append of a list of two or more elements to a non-empty list.
AppendConcatenatesWitness ==
  /\ op.name = "append"
  /\ Len(Before(op.list)) >= 1
  /\ Len(Before(op.list2)) >= 2

\* C9: reverse makes the old tail the new head and yields the elements in
\* the opposite order, and a second reverse yields the original order.
ReverseInvolution ==
  op.name = "reverse" =>
    /\ fault = "none"
    /\ After(op.list) = Reversed(Before(op.list))
    /\ fst[op.list] = LIST_LAST(pre, op.list).out
    /\ Chain(LIST_REVERSE(H, op.list), op.list) = Before(op.list)

\* A reverse of a list of three or more elements.
ReverseInvolutionWitness ==
  /\ op.name = "reverse"
  /\ Len(Before(op.list)) >= 3
  /\ After(op.list) # Before(op.list)

\* C10: sorting a list that is already sorted leaves every element at its
\* position.
SortIdempotent ==
  (op.name = "sort" /\ NonDecreasing(Before(op.list), op.key)) =>
    After(op.list) = Before(op.list)

\* The macros that take a `clean` argument.
Removers == {"pop", "remove", "free", "drop", "take", "filter", "unique"}

\* The elements the last macro unlinked.
Removed == Linked(pre) \ Linked(H)

\* C11: in pop, remove, free, drop, take, filter and unique a cleanup
\* callback is invoked exactly once for each removed element, never for a
\* retained one, and only once the element is unlinked; without a callback
\* nothing is invoked.  After free the list is empty and cleanup was invoked
\* on every former element in list order.
CleanupOncePerRemoved ==
  op.name \in Removers =>
    /\ op.clean =>
         /\ Range(Elems(cleaned)) = Removed
         /\ Len(cleaned) = Cardinality(Removed)
         /\ \A i \in 1..Len(cleaned) : ~cleaned[i].linked
    /\ ~op.clean => cleaned = <<>>
    /\ op.name = "free" =>
         /\ After(op.list) = <<>>
         /\ op.clean => Elems(cleaned) = Before(op.list)

\* A free with a callback of a list of three or more elements.
CleanupOncePerRemovedWitness ==
  /\ op.name = "free"
  /\ op.clean
  /\ Len(Before(op.list)) >= 3
  /\ Len(cleaned) >= 3

\* Every list's chain ends: NULL within NumElems links of the head, the last
\* element's link NULL, an empty list's head NULL.
Terminated(l) ==
  /\ EndsWithin(nxt, fst[l], NumElems)
  /\ LET c == Chain(H, l)
     IN  IF c = <<>> THEN fst[l] = NULL ELSE nxt[c[Len(c)]] = NULL

\* C12: after any sequence of the macros, following links from each list
\* head reaches NULL in finitely many steps, the last element's link is NULL
\* and an empty list's head is NULL.
AcyclicTerminated == \A l \in Lists : Terminated(l)

\* After a sort a list holds two elements or more, and a spare element
\* still links into a list.
AcyclicTerminatedWitness ==
  /\ op.name = "sort"
  /\ \E l \in Lists : Len(Chain(H, l)) >= 2
  /\ \E e \in Spare : nxt[e] \in Linked(H)

\* The heads and the link fields that hold a reference to element e.
HeadsAt(e) == {l \in Lists : fst[l] = e}
LinksAt(e) == {d \in Elem : nxt[d] = e}

\* C13, as claimed: every element is referenced by at most one list head or
\* link field, the link fields of unlinked elements included.
NoLinkShared ==
  \A e \in Elem : Cardinality(HeadsAt(e)) + Cardinality(LinksAt(e)) <= 1

\* C13, amended: every element is referenced by at most one list head or
\* link field of an element that a list holds.
NoLinkSharedInLists ==
  \A e \in Elem :
    Cardinality(HeadsAt(e)) + Cardinality(LinksAt(e) \cap Linked(H)) <= 1

\* A pop left a spare element whose link still references the new head.
NoLinkSharedInListsWitness ==
  /\ op.name = "pop"
  /\ \E l \in Lists : \E e \in Spare : fst[l] # NULL /\ nxt[e] = fst[l]
  /\ \A l \in Lists : fst[l] # NULL

\* The least k with 2^k >= n, for n >= 1.
CeilLog2(n) == CHOOSE k \in 0..n : 2^k >= n /\ (k = 0 \/ 2^(k - 1) < n)

\* C14: sort returns without a pass on a list of length 0 or 1; on a list of
\* length n >= 2 its passes have run lengths 1, 2, 4, ..., only the last one
\* makes a single merge, and there are ceil(log2 n) of them.
SortPassCount ==
  op.name = "sort" =>
    LET n == Len(Before(op.list)) IN
    /\ fault = "none"
    /\ n <= 1 => passes = <<>> /\ After(op.list) = Before(op.list)
    /\ n >= 2 =>
         /\ Len(passes) = CeilLog2(n)
         /\ \A i \in 1..Len(passes) :
              /\ passes[i].gl = 2^(i - 1)
              /\ (passes[i].nm = 1) <=> (i = Len(passes))

\* A sort of five or six elements: three passes, of three or two merges,
\* then two, then one.
SortPassCountWitness ==
  /\ op.name = "sort"
  /\ Len(Before(op.list)) \in {5, 6}
  /\ Len(passes) = 3
  /\ passes[1].nm = 3
  /\ passes[2].nm = 2
  /\ passes[3].gl = 4

====
